---- MODULE Spec2Model ----
(***************************************************************************)
(* Geocoin game (src/src/main.ts): GameManager with its CellFactory and    *)
(* CacheStateCaretaker.                                                    *)
(*                                                                         *)
(* Representation.                                                         *)
(*  - A position (leaflet.LatLng) is a pair <<lat, lng>> of integers in    *)
(*    micro-degrees, so MOVEMENT_DELTA = 1e-4 degrees is 100 and           *)
(*    Math.floor(lat * 10000) is lat \div 100.                             *)
(*  - A cell key `${i},${j}` is the pair <<i, j>>.                         *)
(*  - luck() returns thousandths: 0..999 stands for [0, 1).                *)
(*  - A Coin object is the record of its fields.  A Set<Coin> is a set of  *)
(*    object references; two distinct objects may carry the same fields    *)
(*    (JSON.parse and createCache both allocate new objects), so a         *)
(*    Set<Coin> is a function from coin records to the number of objects   *)
(*    with these fields that the set holds.                                *)
(***************************************************************************)
EXTENDS Integers, Sequences, FiniteSets, TLC

VARIABLES
    rng,              \* which luck() function this world has (never changes)
    playerMarker,     \* playerMarker.getLatLng()
    pathCoordinates,  \* GameManager.pathCoordinates
    cacheStates,      \* GameManager.cacheStates : cellKey -> Set<Coin>
    playerCoins,      \* GameManager.playerCoins : Set<Coin>
    mementos,         \* CacheStateCaretaker.mementos : cellKey -> coins
    aliased,          \* cellKeys whose live Set is the object its memento holds
    storage,          \* localStorage "geocoinGame": << >> or <<record>>
    session,          \* number of GameManager constructions so far
    watchId,          \* GameManager.watchId: << >> is null, <<id>> a watch id
    highlight,        \* the toggle button has its green background
    watches,          \* navigator.geolocation: the ids of the watches registered
    issued,           \* navigator.geolocation: the watchPosition calls so far
    supported,        \* "geolocation" in navigator (never changes)
    cells,            \* CellFactory.cells : key -> GlobalCell object
    answers,          \* history: the cells asked of the factory, with what it gave
    playerPos,        \* part_002: the tile (i, j) of playerMarker.getLatLng()
    playerPoints,     \* part_002: let playerPoints
    playerInventory,  \* part_002: let playerInventory
    coinIdCounter,    \* part_002: let coinIdCounter
    cacheMap,         \* part_002: const cacheMap : key -> Cache
    rectangles,       \* part_002: the rectangles on the map: key -> the Cache of its popup
    booted,           \* history: the localStorage item this session was built from
    generated,        \* history: every coin object createCache has made
    evicted,          \* history: cellKey -> coins it held when it left the store
    outcome,          \* history: cellKey -> what its first spawn test gave
    last              \* history: the operation that led to this state

vars == <<rng, playerMarker, pathCoordinates, cacheStates, playerCoins,
          mementos, aliased, storage, session, watchId, highlight, watches,
          issued, supported, cells, answers, playerPos, playerPoints,
          playerInventory, coinIdCounter, cacheMap, rectangles, booted,
          generated, evicted, outcome, last>>

-----------------------------------------------------------------------------
(* Program constants *)

NEIGHBORHOOD_SIZE == 8
CACHE_SPAWN_PROBABILITY == 100
MOVEMENT_DELTA == 100
CELLS_SCALE == 100
MAX_COINS == 5
LUCK_RANGE == 1000

OAKES_CLASSROOM == <<36989493, -122062771>>

(* Bounds of the model *)

MaxTrail == 3        \* moves stop when the trail has this many positions
MaxTrailReset == 2   \* the same, where the reset button shortens the trail
MaxDist == 1         \* the player stays within this many cells of the start
MaxSessions == 2     \* page loads (constructions of GameManager)
MaxWatches == 2      \* calls of navigator.geolocation.watchPosition
MaxHeld == 2         \* part_002: collects stop when the inventory would exceed this
MaxMinted == 2       \* part_002: deposits stop when coinIdCounter would exceed this

-----------------------------------------------------------------------------
(* Set<Coin> *)

NewSet == [c \in {} |-> 0]

SetOf(coins) == [c \in coins |-> 1]

Size(s) == LET RECURSIVE Sum(_)
               Sum(D) == IF D = {} THEN 0
                         ELSE LET c == CHOOSE c \in D : TRUE
                              IN s[c] + Sum(D \ {c})
           IN Sum(DOMAIN s)

SetAdd(s, coin) ==
    [c \in DOMAIN s \cup {coin} |->
        IF c = coin THEN (IF coin \in DOMAIN s THEN s[coin] + 1 ELSE 1)
        ELSE s[c]]

SetDelete(s, coin) ==
    IF coin \notin DOMAIN s THEN s
    ELSE IF s[coin] > 1 THEN [s EXCEPT ![coin] = @ - 1]
    ELSE [c \in DOMAIN s \ {coin} |-> s[c]]

\* the union of two collections of coin objects, counting objects
Plus(s, t) ==
    [c \in DOMAIN s \cup DOMAIN t |->
        (IF c \in DOMAIN s THEN s[c] ELSE 0) + (IF c \in DOMAIN t THEN t[c] ELSE 0)]

\* all the coin objects held by the sets of a map cellKey -> Set<Coin>
RECURSIVE AllOf(_)
AllOf(m) ==
    IF DOMAIN m = {} THEN NewSet
    ELSE LET k == CHOOSE k \in DOMAIN m : TRUE
         IN Plus(m[k], AllOf([x \in DOMAIN m \ {k} |-> m[x]]))

NewMap == [k \in {} |-> NewSet]

MapSet(m, key, value) ==
    [k \in DOMAIN m \cup {key} |-> IF k = key THEN value ELSE m[k]]

-----------------------------------------------------------------------------
(* luck.ts: a pure function of the key.  Each world (rng) is one such      *)
(* function, given by the cells whose values differ from the default.      *)

StartCell == <<OAKES_CLASSROOM[1] \div CELLS_SCALE, OAKES_CLASSROOM[2] \div CELLS_SCALE>>

Off(di, dj) == <<StartCell[1] + di, StartCell[2] + dj>>

\* World 1: one cache of three coins on the southern edge of the first view,
\*          and a cell one step north of it that just fails the spawn test.
\* World 2: a one-coin cache on the eastern edge, a two-coin cache that comes
\*          into view one step north, and a cell that just fails the spawn test.
\* World 3: two one-coin caches, one on the southern edge, one under the player.
\* World 4: caches of four and of five coins, and cells around the threshold.
\* World 5: a one-coin cache under the player and a two-coin cache one row
\*          south of the first view.
LuckTable(r) ==
    CASE r = 1 -> { [cell |-> Off(-8, 0), spawn |-> 50,  coins |-> 500],
                    [cell |-> Off(8, -8), spawn |-> 100, coins |-> 999] }
      [] r = 2 -> { [cell |-> Off(0, 7),  spawn |-> 0,   coins |-> 0],
                    [cell |-> Off(8, 0),  spawn |-> 99,  coins |-> 200],
                    [cell |-> Off(1, 1),  spawn |-> 100, coins |-> 999] }
      [] r = 3 -> { [cell |-> Off(-8, 0), spawn |-> 10,  coins |-> 199],
                    [cell |-> Off(0, 0),  spawn |-> 20,  coins |-> 100] }
      [] r = 4 -> { [cell |-> Off(7, 7),  spawn |-> 99,  coins |-> 999],
                    [cell |-> Off(-9, 0), spawn |-> 0,   coins |-> 600],
                    [cell |-> Off(0, 8),  spawn |-> 1,   coins |-> 799],
                    [cell |-> Off(2, 2),  spawn |-> 100, coins |-> 0],
                    [cell |-> Off(-1, 8), spawn |-> 500, coins |-> 0] }
      [] r = 5 -> { [cell |-> Off(-9, 0), spawn |-> 0,   coins |-> 200],
                    [cell |-> Off(0, 0),  spawn |-> 20,  coins |-> 100] }
      [] OTHER -> {}

Worlds == {1, 2, 3, 4}

\* the cells a collectCoin / depositCoin call names in each world
Addressable(r) ==
    CASE r = 1 -> {Off(-8, 0)}
      [] r = 2 -> {Off(0, 7), Off(1, 1)}
      [] r = 3 -> {Off(-8, 0), Off(0, 0)}
      [] r = 5 -> {Off(0, 0)}
      [] OTHER -> {}

luckOf(r, key) ==
    LET hit == {e \in LuckTable(r) : e.cell = <<key[1], key[2]>>}
    IN IF hit = {} THEN 500
       ELSE LET e == CHOOSE e \in hit : TRUE
            IN IF Len(key) = 2 THEN e.spawn ELSE e.coins

luck(key) == luckOf(rng, key)

-----------------------------------------------------------------------------
(* CellFactory *)

getCellKey(cell) == <<cell.i, cell.j>>

getCell(i, j) == [i |-> i, j |-> j]

getCellFromLatLng(lat, lng) == getCell(lat \div CELLS_SCALE, lng \div CELLS_SCALE)

(* The factory with its index.  The game reads of a cell its i and its j    *)
(* alone, and the operators above give these; the operators below follow    *)
(* the Map the factory keeps and the objects it hands out.  A GlobalCell    *)
(* object is a record of its fields and of ref, which tells two objects     *)
(* with the same fields apart: the n-th object the factory makes has ref n. *)

factory == <<cells, answers>>

NoCells == [k \in {} |-> [ref |-> 0, i |-> 0, j |-> 0]]

\* a key written without the comma
key_noComma(i, j) == ToString(i) \o ToString(j)

\* const key = `${i},${j}`
key(i, j) == ToString(i) \o "," \o ToString(j)

\* getCell on the index cs: the index after the call and the object returned
CellFactory_getCell(cs, i, j) ==
    LET k == key(i, j)
        set == IF k \in DOMAIN cs THEN cs
               ELSE [x \in DOMAIN cs \cup {k} |->
                        IF x = k
                        THEN [ref |-> Cardinality(DOMAIN cs) + 1, i |-> i, j |-> j]
                        ELSE cs[x]]
    IN [cells |-> set, cell |-> set[k]]

CellFactory_getCellFromLatLng(cs, lat, lng) ==
    CellFactory_getCell(cs, lat \div CELLS_SCALE, lng \div CELLS_SCALE)

-----------------------------------------------------------------------------
(* CacheStateCaretaker *)

\* a caretaker that does not bother to save a cache without coins
saveState_skipEmpty(m, cellKey, coins) ==
    IF coins = NewSet THEN m ELSE MapSet(m, cellKey, coins)

\* a caretaker that keeps the first memento of a cell and ignores later saves
saveState_keepFirst(m, cellKey, coins) ==
    IF cellKey \in DOMAIN m THEN m ELSE MapSet(m, cellKey, coins)

saveState(m, cellKey, coins) == MapSet(m, cellKey, coins)

\* a caretaker whose lookup never finds the memento
getState_lost(m, cellKey) == [defined |-> FALSE, coins |-> NewSet, same |-> FALSE]

\* a caretaker that hands out the collection it keeps, not a copy of it
getState_alias(m, cellKey) ==
    IF cellKey \in DOMAIN m
    THEN [defined |-> TRUE, coins |-> m[cellKey], same |-> TRUE]
    ELSE [defined |-> FALSE, coins |-> NewSet, same |-> FALSE]

\* [defined |-> FALSE] is undefined; a memento with no coins is still defined.
\* same: the Set returned is the very object the memento holds; it is not,
\* the code returns new Set(memento.coins).
getState(m, cellKey) ==
    IF cellKey \in DOMAIN m
    THEN [defined |-> TRUE, coins |-> m[cellKey], same |-> FALSE]
    ELSE [defined |-> FALSE, coins |-> NewSet, same |-> FALSE]

\* the mementos as they read once the live Sets cs have been written to:
\* a memento that holds the object of a live Set shows what that Set holds
Shared(m, cs, al) ==
    [k \in DOMAIN m |-> IF k \in al /\ k \in DOMAIN cs THEN cs[k] ELSE m[k]]

-----------------------------------------------------------------------------
(* GameManager.createCache *)

Coin(cell, serial) ==
    [originI |-> cell.i, originJ |-> cell.j, serial |-> serial,
     currentLocation |-> getCellKey(cell)]

\* the count without its "+ 1"
numCoins_floorOnly(cell) ==
    (luck(<<cell.i, cell.j, "coins">>) * MAX_COINS) \div LUCK_RANGE

numCoins(cell) ==
    (luck(<<cell.i, cell.j, "coins">>) * MAX_COINS) \div LUCK_RANGE + 1

\* serials that go on from the number of coins the player holds
createCache_numbered(cell) ==
    SetOf({Coin(cell, Size(playerCoins) + serial) : serial \in 0 .. numCoins(cell) - 1})

createCache(cell) ==
    SetOf({Coin(cell, serial) : serial \in 0 .. numCoins(cell) - 1})

-----------------------------------------------------------------------------
(* GameManager.refreshVisibleArea *)

\* first loop: every live cache is saved into the caretaker
RECURSIVE SaveAll(_, _)
SaveAll(m, cs) ==
    IF DOMAIN cs = {} THEN m
    ELSE LET k == CHOOSE k \in DOMAIN cs : TRUE
         IN SaveAll(saveState(m, k, cs[k]), [x \in DOMAIN cs \ {k} |-> cs[x]])

Offsets == (0 - NEIGHBORHOOD_SIZE) .. (NEIGHBORHOOD_SIZE - 1)

\* cell is one of the cells (centerCell.i + di, centerCell.j + dj) of the loops
InView(cell, pos) ==
    LET centerCell == getCellFromLatLng(pos[1], pos[2])
    IN (cell.i - centerCell.i) \in Offsets /\ (cell.j - centerCell.j) \in Offsets

\* the cells (centerCell.i + di, centerCell.j + dj) of the loops
VisibleCells(pos) ==
    LET centerCell == getCellFromLatLng(pos[1], pos[2])
    IN {getCell(centerCell.i + di, centerCell.j + dj) : di \in Offsets, dj \in Offsets}

\* the spawn test with <= in the place of <
spawns_atMost(cell) == luck(<<cell.i, cell.j>>) <= CACHE_SPAWN_PROBABILITY

spawns(cell) == luck(<<cell.i, cell.j>>) < CACHE_SPAWN_PROBABILITY

\* The loops visit every cell in view, and do something only for a cell with
\* a memento or a cell that spawns; luck() is below the spawn probability
\* for cells of LuckTable alone, so these are the cells to look at.
Candidates(m) ==
    {getCell(k[1], k[2]) : k \in DOMAIN m \cup {e.cell : e \in LuckTable(rng)}}

\* the cells of the neighbourhood the second loop restores, and those it generates
RestoredCells(m, pos) ==
    {cell \in Candidates(m) :
        InView(cell, pos) /\ getState(m, getCellKey(cell)).defined}

\* the cells for which the second loop evaluates luck()
TestedCells(m, pos) ==
    {cell \in Candidates(m) :
        InView(cell, pos) /\ ~getState(m, getCellKey(cell)).defined}

GeneratedCells(m, pos) ==
    {cell \in Candidates(m) :
        /\ InView(cell, pos)
        /\ ~getState(m, getCellKey(cell)).defined
        /\ spawns(cell)}

\* a refresh without its first loop: the store is cleared, nothing is saved
refreshVisibleArea_noSave(cs, m, pos) ==
    LET restored == {getCellKey(c) : c \in RestoredCells(m, pos)}
        fresh == {getCellKey(c) : c \in GeneratedCells(m, pos)}
    IN [mementos |-> m,
        cacheStates |->
            [k \in restored \cup fresh |->
                IF k \in restored THEN getState(m, k).coins
                ELSE createCache(getCell(k[1], k[2]))],
        restored |-> restored,
        aliased |-> {k \in restored : getState(m, k).same},
        tested |-> {getCellKey(c) : c \in TestedCells(m, pos)},
        fresh |-> fresh,
        replaced |-> {}]

\* a refresh that restores and generates the cells in view first, and saves
\* the caches that were live only then
refreshVisibleArea_restoreFirst(cs, m, pos) ==
    LET restored == {getCellKey(c) : c \in RestoredCells(m, pos)}
        fresh == {getCellKey(c) : c \in GeneratedCells(m, pos)}
    IN [mementos |-> SaveAll(m, cs),
        cacheStates |->
            [k \in restored \cup fresh |->
                IF k \in restored THEN getState(m, k).coins
                ELSE createCache(getCell(k[1], k[2]))],
        restored |-> restored,
        aliased |-> {k \in restored : getState(m, k).same},
        tested |-> {getCellKey(c) : c \in TestedCells(m, pos)},
        fresh |-> fresh,
        replaced |-> {k \in DOMAIN cs \cap DOMAIN m : m[k] # cs[k]}]

\* replaced: the cells whose memento the first loop overwrote with other coins
refreshVisibleArea(cs, m, pos) ==
    LET saved == SaveAll(m, cs)
        restored == {getCellKey(c) : c \in RestoredCells(saved, pos)}
        fresh == {getCellKey(c) : c \in GeneratedCells(saved, pos)}
    IN [mementos |-> saved,
        cacheStates |->
            [k \in restored \cup fresh |->
                IF k \in restored THEN getState(saved, k).coins
                ELSE createCache(getCell(k[1], k[2]))],
        restored |-> restored,
        aliased |-> {k \in restored : getState(saved, k).same},
        tested |-> {getCellKey(c) : c \in TestedCells(saved, pos)},
        fresh |-> fresh,
        replaced |-> {k \in DOMAIN cs \cap DOMAIN m : m[k] # cs[k]}]

-----------------------------------------------------------------------------
(* GameManager.collectCoin / depositCoin *)

Matches(c, originI, originJ, serial) ==
    c.originI = originI /\ c.originJ = originJ /\ c.serial = serial

\* Array.from(set).find(...): [found |-> FALSE] is undefined
find(s, originI, originJ, serial) ==
    LET hits == {c \in DOMAIN s : Matches(c, originI, originJ, serial)}
    IN IF hits = {} THEN [found |-> FALSE]
       ELSE [found |-> TRUE, coin |-> CHOOSE c \in hits : TRUE]

\* a collect that hands the coin to the player and leaves it in the cache
collectCoin_keep(cs, pc, cellKey, originI, originJ, serial) ==
    IF cellKey \notin DOMAIN cs THEN [cacheStates |-> cs, playerCoins |-> pc]
    ELSE LET r == find(cs[cellKey], originI, originJ, serial)
         IN IF r.found
            THEN [cacheStates |-> cs, playerCoins |-> SetAdd(pc, r.coin)]
            ELSE [cacheStates |-> cs, playerCoins |-> pc]

collectCoin(cs, pc, cellKey, originI, originJ, serial) ==
    IF cellKey \notin DOMAIN cs THEN [cacheStates |-> cs, playerCoins |-> pc]
    ELSE LET r == find(cs[cellKey], originI, originJ, serial)
         IN IF r.found
            THEN [cacheStates |-> [cs EXCEPT ![cellKey] = SetDelete(@, r.coin)],
                  playerCoins |-> SetAdd(pc, r.coin)]
            ELSE [cacheStates |-> cs, playerCoins |-> pc]

\* a deposit that stamps the coin with the cell it is put into
depositCoin_relabel(cs, pc, cellKey, originI, originJ, serial) ==
    LET r == find(pc, originI, originJ, serial)
    IN IF r.found
       THEN LET cache == IF cellKey \in DOMAIN cs THEN cs[cellKey] ELSE NewSet
                moved == [r.coin EXCEPT !.originI = cellKey[1],
                                        !.originJ = cellKey[2],
                                        !.currentLocation = cellKey]
            IN [cacheStates |-> MapSet(cs, cellKey, SetAdd(cache, moved)),
                playerCoins |-> SetDelete(pc, r.coin)]
       ELSE [cacheStates |-> cs, playerCoins |-> pc]

depositCoin(cs, pc, cellKey, originI, originJ, serial) ==
    LET r == find(pc, originI, originJ, serial)
    IN IF r.found
       THEN LET cache == IF cellKey \in DOMAIN cs THEN cs[cellKey] ELSE NewSet
            IN [cacheStates |-> MapSet(cs, cellKey, SetAdd(cache, r.coin)),
                playerCoins |-> SetDelete(pc, r.coin)]
       ELSE [cacheStates |-> cs, playerCoins |-> pc]

-----------------------------------------------------------------------------
(* GameManager.saveGameState / loadGameState *)

\* A localStorage item is << >> (no item) or <<text>>.  A text is a record:
\* parses tells whether JSON.parse accepts it and yields an object; kind
\* tells, for each field of GameState, whether the object has it as an array
\* ("ok"), lacks it ("missing") or has a number in its place ("number").
Fields == {"playerCoins", "locationHistory", "cacheStates"}

Kinds == {"ok", "missing", "number"}

AllOk == [f \in Fields |-> "ok"]

\* the item saveGameState writes: the inventory, the trail and the live
\* caches; the caretaker's mementos are not part of it
saveGameState(pc, path, cs) ==
    <<[parses |-> TRUE, kind |-> AllOk,
       playerCoins |-> pc, locationHistory |-> path, cacheStates |-> cs]>>

\* the values the constructor gives the fields before loadGameState runs
Fresh ==
    [playerCoins |-> NewSet,
     pathCoordinates |-> <<OAKES_CLASSROOM>>,
     playerMarker |-> OAKES_CLASSROOM,
     cacheStates |-> NewMap,
     failed |-> FALSE]

\* The fields loadGameState sets, starting from the constructor's values;
\* failed: the catch block ran (and removed the item).  The statements run
\* in order and the first that throws ends the loading, keeping what the
\* earlier ones have set:
\*   JSON.parse(savedState)                 throws on a text that does not parse
\*   new Set(gameState.playerCoins)         throws on a number, is empty on undefined
\*   gameState.locationHistory.map(...)     throws on undefined and on a number
\*   for (... of gameState.cacheStates)     throws on undefined and on a number
loadGameState(item) ==
    IF item = << >> THEN Fresh
    ELSE LET gameState == item[1]
             coins == IF gameState.kind["playerCoins"] = "ok"
                      THEN gameState.playerCoins ELSE NewSet
             path == gameState.locationHistory
             marker == IF Len(path) > 0 THEN path[Len(path)] ELSE OAKES_CLASSROOM
         IN IF ~gameState.parses \/ gameState.kind["playerCoins"] = "number"
            THEN [Fresh EXCEPT !.failed = TRUE]
            ELSE IF gameState.kind["locationHistory"] # "ok"
            THEN [Fresh EXCEPT !.playerCoins = coins, !.failed = TRUE]
            ELSE IF gameState.kind["cacheStates"] # "ok"
            THEN [Fresh EXCEPT !.playerCoins = coins, !.pathCoordinates = path,
                               !.playerMarker = marker, !.failed = TRUE]
            ELSE [playerCoins |-> coins,
                  pathCoordinates |-> path,
                  playerMarker |-> marker,
                  cacheStates |-> gameState.cacheStates,
                  failed |-> FALSE]

-----------------------------------------------------------------------------
(* GameManager.resetGame: the loop that returns the player's coins *)

originCellKey(coin) == getCellKey(getCell(coin.originI, coin.originJ))

returnCoins(cs, pc) ==
    LET origins == {originCellKey(c) : c \in DOMAIN pc}
    IN [k \in DOMAIN cs \cup origins |->
           Plus(IF k \in DOMAIN cs THEN cs[k] ELSE NewSet,
                [c \in {c \in DOMAIN pc : originCellKey(c) = k} |-> pc[c]])]

-----------------------------------------------------------------------------
(* History *)

\* the cells that left the store in a refresh, with the coins they held
Evict(old, cs, cs2) ==
    [k \in (DOMAIN old \cup DOMAIN cs) \ DOMAIN cs2 |->
        IF k \in DOMAIN cs THEN cs[k] ELSE old[k]]

\* the cells that are out of the store and that the refresh at pos has in
\* view, with the coins they held when they left the store
Awaited(old, cs, pos) ==
    [k \in {k \in DOMAIN old \ DOMAIN cs : InView(getCell(k[1], k[2]), pos)} |->
        old[k]]

\* what the spawn test of a refresh gave for the cell k
Outcome(r, k) ==
    [spawned |-> k \in r.fresh,
     coins |-> IF k \in r.fresh THEN r.cacheStates[k] ELSE NewSet]

\* the first outcome of every cell tested so far
Outcomes(old, r) ==
    [k \in DOMAIN old \cup r.tested |->
        IF k \in DOMAIN old THEN old[k] ELSE Outcome(r, k)]

NoCell == <<0, 0>>

\* a call that is no refresh; created tells that a deposit made the entry of
\* the store it wrote to
Op(name, cell, changed) ==
    [op |-> name, cell |-> cell, changed |-> changed,
     restored |-> {}, tested |-> {}, fresh |-> {}, replaced |-> {},
     returned |-> 0, created |-> FALSE, awaited |-> NewMap]

\* a refresh at pos: r is its result, old and cs the history and the store
\* before it
Refresh(name, r, old, cs, pos) ==
    [op |-> name, cell |-> NoCell, changed |-> TRUE,
     restored |-> r.restored, tested |-> r.tested, fresh |-> r.fresh,
     replaced |-> r.replaced, returned |-> 0, created |-> FALSE,
     awaited |-> Awaited(old, cs, pos)]

Made(r) == AllOf([k \in r.fresh |-> r.cacheStates[k]])

-----------------------------------------------------------------------------
(* Initial state: new GameManager() with nothing in localStorage *)

geo == <<watchId, highlight, watches, issued, supported>>

\* the state of the variant of part_002, which is another program
variant == <<playerPos, playerPoints, playerInventory, coinIdCounter, cacheMap,
             rectangles>>

NULL_ISLAND == <<0, 0>>

NoCaches == [k \in {} |-> [i |-> 0, j |-> 0, coins |-> << >>, memento |-> << >>]]

\* the variant before its script has run
NoVariant ==
    /\ playerPos = NULL_ISLAND
    /\ playerPoints = 0 /\ playerInventory = 0 /\ coinIdCounter = 0
    /\ cacheMap = NoCaches /\ rectangles = NoCaches

\* watchId = null, and a page that has registered no watch yet
NoWatch == watchId = << >> /\ highlight = FALSE /\ watches = {} /\ issued = 0

GameStart(W, S) ==
    /\ rng \in W
    /\ supported \in S
    /\ NoWatch
    /\ cells = NoCells /\ answers = {}
    /\ playerMarker = OAKES_CLASSROOM
    /\ pathCoordinates = <<OAKES_CLASSROOM>>
    /\ playerCoins = NewSet
    /\ storage = << >>
    /\ session = 1
    /\ booted = << >>
    /\ LET r == refreshVisibleArea(NewMap, NewMap, OAKES_CLASSROOM)
       IN /\ cacheStates = r.cacheStates
          /\ mementos = r.mementos
          /\ aliased = r.aliased
          /\ generated = Made(r)
          /\ evicted = NewMap
          /\ outcome = Outcomes(NewMap, r)
          /\ last = Refresh("init", r, NewMap, NewMap, OAKES_CLASSROOM)

StartWith(W, S) == GameStart(W, S) /\ NoVariant

Start(W) == StartWith(W, {TRUE})

Init == Start(Worlds)

\* A record as the spec's serialize() writes it in world 5: the player at the
\* start with coin 1 of the southern cache in the inventory, the cache under
\* the player, and the southern cache, which is not in view, with its other
\* coin.
ForeignRecord ==
    [parses |-> TRUE, kind |-> AllOk,
     playerCoins |-> SetOf({Coin(getCell(Off(-9, 0)[1], Off(-9, 0)[2]), 1)}),
     locationHistory |-> <<OAKES_CLASSROOM>>,
     cacheStates |->
         MapSet(MapSet(NewMap, Off(0, 0), createCache(getCell(Off(0, 0)[1], Off(0, 0)[2]))),
                Off(-9, 0),
                SetOf({Coin(getCell(Off(-9, 0)[1], Off(-9, 0)[2]), 0)}))]

\* the items found in localStorage: none, a text that does not parse, and
\* the record with each of its fields whole, missing or ill-typed
Items ==
    {<< >>, <<[ForeignRecord EXCEPT !.parses = FALSE]>>}
    \cup {<<[ForeignRecord EXCEPT !.kind = kind]>> : kind \in [Fields -> Kinds]}

\* new GameManager() with an item in localStorage
StartFrom(W, I) ==
    /\ rng \in W
    /\ supported = TRUE
    /\ NoWatch
    /\ NoVariant
    /\ cells = NoCells /\ answers = {}
    /\ session = 1
    /\ booted \in I
    /\ LET l == loadGameState(booted)
           r == refreshVisibleArea(l.cacheStates, NewMap, l.playerMarker)
       IN /\ playerMarker = l.playerMarker
          /\ pathCoordinates = l.pathCoordinates
          /\ playerCoins = l.playerCoins
          /\ storage = IF l.failed THEN << >> ELSE booted
          /\ cacheStates = r.cacheStates
          /\ mementos = r.mementos
          /\ aliased = r.aliased
          /\ generated = Plus(Made(r), Plus(l.playerCoins, AllOf(l.cacheStates)))
          /\ evicted = Evict(NewMap, l.cacheStates, r.cacheStates)
          /\ outcome = Outcomes(NewMap, r)
          /\ last = Refresh("reload", r, NewMap, l.cacheStates, l.playerMarker)

-----------------------------------------------------------------------------
(* Actions *)

Directions == {"north", "south", "east", "west"}

newPos(direction) ==
    CASE direction = "north" -> <<playerMarker[1] + MOVEMENT_DELTA, playerMarker[2]>>
      [] direction = "south" -> <<playerMarker[1] - MOVEMENT_DELTA, playerMarker[2]>>
      [] direction = "east"  -> <<playerMarker[1], playerMarker[2] + MOVEMENT_DELTA>>
      [] direction = "west"  -> <<playerMarker[1], playerMarker[2] - MOVEMENT_DELTA>>

Abs(n) == IF n < 0 THEN 0 - n ELSE n

InRange(pos) ==
    LET c == getCellFromLatLng(pos[1], pos[2])
    IN Abs(c.i - StartCell[1]) <= MaxDist /\ Abs(c.j - StartCell[2]) <= MaxDist

\* an updatePlayerPosition that puts the new position in front of the trail
updatePlayerPosition_inFront(pos) ==
    LET r == refreshVisibleArea(cacheStates, mementos, pos)
    IN /\ playerMarker' = pos
       /\ pathCoordinates' = <<pos>> \o pathCoordinates
       /\ cacheStates' = r.cacheStates
       /\ mementos' = r.mementos
       /\ aliased' = r.aliased
       /\ storage' = saveGameState(playerCoins, <<pos>> \o pathCoordinates,
                                   r.cacheStates)
       /\ generated' = Plus(generated, Made(r))
       /\ evicted' = Evict(evicted, cacheStates, r.cacheStates)
       /\ outcome' = Outcomes(outcome, r)
       /\ last' = Refresh("move", r, evicted, cacheStates, pos)
       /\ UNCHANGED <<rng, playerCoins, session, booted, factory, variant>>

\* updatePlayerPosition(newPos)
updatePlayerPosition(pos) ==
    LET r == refreshVisibleArea(cacheStates, mementos, pos)
    IN /\ playerMarker' = pos
       /\ pathCoordinates' = Append(pathCoordinates, pos)
       /\ cacheStates' = r.cacheStates
       /\ mementos' = r.mementos
       /\ aliased' = r.aliased
       /\ storage' = saveGameState(playerCoins, Append(pathCoordinates, pos),
                                   r.cacheStates)
       /\ generated' = Plus(generated, Made(r))
       /\ evicted' = Evict(evicted, cacheStates, r.cacheStates)
       /\ outcome' = Outcomes(outcome, r)
       /\ last' = Refresh("move", r, evicted, cacheStates, pos)
       /\ UNCHANGED <<rng, playerCoins, session, booted, factory, variant>>

\* movePlayer(direction), while the trail is shorter than limit
Move(direction, limit) ==
    /\ Len(pathCoordinates) < limit
    /\ InRange(newPos(direction))
    /\ updatePlayerPosition(newPos(direction))
    /\ UNCHANGED geo

MovePlayer(direction) == Move(direction, MaxTrail)

ShortMove(direction) == Move(direction, MaxTrailReset)

\* the cells and coins a collectCoin / depositCoin call may name
CellKeys == Addressable(rng)

Triples ==
    {<<c.originI, c.originJ, c.serial>> : c \in DOMAIN generated}

CollectCoin(cellKey, t) ==
    LET r == collectCoin(cacheStates, playerCoins, cellKey, t[1], t[2], t[3])
    IN /\ cacheStates' = r.cacheStates
       /\ playerCoins' = r.playerCoins
       /\ mementos' = Shared(mementos, r.cacheStates, aliased)
       /\ last' = Op("collect", cellKey, r.playerCoins # playerCoins)
       /\ UNCHANGED <<rng, playerMarker, pathCoordinates, aliased, storage,
                      session, booted, generated, evicted, outcome>>
       /\ UNCHANGED <<geo, factory, variant>>

DepositCoin(cellKey, t) ==
    LET r == depositCoin(cacheStates, playerCoins, cellKey, t[1], t[2], t[3])
    IN /\ cacheStates' = r.cacheStates
       /\ playerCoins' = r.playerCoins
       /\ evicted' = [k \in DOMAIN evicted \ DOMAIN r.cacheStates |-> evicted[k]]
       /\ mementos' = Shared(mementos, r.cacheStates, aliased)
       /\ last' = [Op("deposit", cellKey, r.playerCoins # playerCoins)
                     EXCEPT !.created = DOMAIN r.cacheStates # DOMAIN cacheStates]
       /\ UNCHANGED <<rng, playerMarker, pathCoordinates, aliased, storage,
                      session, booted, generated, outcome>>
       /\ UNCHANGED <<geo, factory, variant>>

\* a resetGame() that leaves the record in localStorage
ResetGame_keepRecord(confirmed) ==
    IF confirmed
    THEN LET back == returnCoins(cacheStates, playerCoins)
             r == refreshVisibleArea(back, Shared(mementos, back, aliased), playerMarker)
         IN /\ pathCoordinates' = <<playerMarker>>
            /\ playerCoins' = NewSet
            /\ cacheStates' = r.cacheStates
            /\ mementos' = r.mementos
            /\ aliased' = r.aliased
            /\ generated' = Plus(generated, Made(r))
            /\ evicted' = Evict(evicted, back, r.cacheStates)
            /\ outcome' = Outcomes(outcome, r)
            /\ last' = [Refresh("reset", r, evicted, back, playerMarker)
                          EXCEPT !.returned = Size(playerCoins)]
            /\ UNCHANGED <<rng, playerMarker, storage, session, booted>>
            /\ UNCHANGED <<geo, factory, variant>>
    ELSE /\ last' = Op("declined", NoCell, FALSE)
         /\ UNCHANGED <<rng, playerMarker, pathCoordinates, cacheStates, playerCoins,
                        mementos, aliased, storage, session, booted, generated,
                        evicted, outcome>>
         /\ UNCHANGED <<geo, factory, variant>>

\* resetGame(), with the answer given to confirm(); returned: the number
\* of coins the inventory held
ResetGame(confirmed) ==
    IF confirmed
    THEN LET back == returnCoins(cacheStates, playerCoins)
             r == refreshVisibleArea(back, Shared(mementos, back, aliased), playerMarker)
         IN /\ pathCoordinates' = <<playerMarker>>
            /\ playerCoins' = NewSet
            /\ storage' = << >>
            /\ cacheStates' = r.cacheStates
            /\ mementos' = r.mementos
            /\ aliased' = r.aliased
            /\ generated' = Plus(generated, Made(r))
            /\ evicted' = Evict(evicted, back, r.cacheStates)
            /\ outcome' = Outcomes(outcome, r)
            /\ last' = [Refresh("reset", r, evicted, back, playerMarker)
                          EXCEPT !.returned = Size(playerCoins)]
            /\ UNCHANGED <<rng, playerMarker, session, booted>>
            /\ UNCHANGED <<geo, factory, variant>>
    ELSE /\ last' = Op("declined", NoCell, FALSE)
         /\ UNCHANGED <<rng, playerMarker, pathCoordinates, cacheStates, playerCoins,
                        mementos, aliased, storage, session, booted, generated,
                        evicted, outcome>>
         /\ UNCHANGED <<geo, factory, variant>>

\* the page is loaded again: new GameManager()
Reload ==
    /\ session < MaxSessions
    /\ LET l == loadGameState(storage)
           r == refreshVisibleArea(l.cacheStates, NewMap, l.playerMarker)
       IN /\ playerMarker' = l.playerMarker
          /\ pathCoordinates' = l.pathCoordinates
          /\ playerCoins' = l.playerCoins
          /\ cacheStates' = r.cacheStates
          /\ mementos' = r.mementos
          /\ aliased' = r.aliased
          /\ generated' = Plus(generated, Made(r))
          /\ evicted' = Evict(NewMap, l.cacheStates, r.cacheStates)
          /\ outcome' = Outcomes(outcome, r)
          /\ last' = Refresh("reload", r, NewMap, l.cacheStates, l.playerMarker)
          /\ storage' = IF l.failed THEN << >> ELSE storage
    /\ session' = session + 1
    /\ booted' = storage
    /\ watchId' = << >> /\ highlight' = FALSE /\ watches' = {}
    /\ UNCHANGED <<rng, issued, supported, factory, variant>>

-----------------------------------------------------------------------------
(* GameManager.createCachePopup: the buttons "Collect All" and "Deposit All" *)
(* A for ... of loop over a Set visits its entries in their order; an entry   *)
(* deleted before the loop reaches it is not visited, and the deletion of    *)
(* an entry moves no other entry.  e is the sequence of the entries the Set  *)
(* had when the loop began, i the place of the loop in it, and gone the      *)
(* places of the entries deleted since.                                      *)

\* the coin objects of a Set, in the order of its iteration
RECURSIVE Entries(_)
Entries(s) ==
    IF DOMAIN s = {} THEN << >>
    ELSE LET c == CHOOSE c \in DOMAIN s : TRUE
         IN <<c>> \o Entries(SetDelete(s, c))

\* the place of the entry find() gives for the triple of coin: the first
\* that matches among those still in the Set
firstLive(e, gone, coin) ==
    LET hits == {x \in (1 .. Len(e)) \ gone :
                    Matches(e[x], coin.originI, coin.originJ, coin.serial)}
    IN CHOOSE x \in hits : \A y \in hits : x <= y

\* a loop by index over an array that shrinks under it: the entry after a
\* deleted one is passed over
RECURSIVE collectAllBtn_byIndex(_, _, _, _, _, _)
collectAllBtn_byIndex(cs, pc, cellKey, e, i, gone) ==
    IF i > Len(e) THEN [cacheStates |-> cs, playerCoins |-> pc]
    ELSE IF i \in gone THEN collectAllBtn_byIndex(cs, pc, cellKey, e, i + 1, gone)
    ELSE LET r == collectCoin(cs, pc, cellKey, e[i].originI, e[i].originJ, e[i].serial)
         IN IF r.playerCoins = pc
            THEN collectAllBtn_byIndex(cs, pc, cellKey, e, i + 1, gone)
            ELSE collectAllBtn_byIndex(r.cacheStates, r.playerCoins, cellKey, e, i + 1 + 1,
                                       gone \cup {firstLive(e, gone, e[i])})

\* for (const coin of cacheCoins) this.collectCoin(cellKey, ...)
RECURSIVE collectAllBtn(_, _, _, _, _, _)
collectAllBtn(cs, pc, cellKey, e, i, gone) ==
    IF i > Len(e) THEN [cacheStates |-> cs, playerCoins |-> pc]
    ELSE IF i \in gone THEN collectAllBtn(cs, pc, cellKey, e, i + 1, gone)
    ELSE LET r == collectCoin(cs, pc, cellKey, e[i].originI, e[i].originJ, e[i].serial)
         IN IF r.playerCoins = pc
            THEN collectAllBtn(cs, pc, cellKey, e, i + 1, gone)
            ELSE collectAllBtn(r.cacheStates, r.playerCoins, cellKey, e, i + 1,
                               gone \cup {firstLive(e, gone, e[i])})

\* for (const coin of this.playerCoins) this.depositCoin(cellKey, ...)
RECURSIVE depositAllBtn(_, _, _, _, _, _)
depositAllBtn(cs, pc, cellKey, e, i, gone) ==
    IF i > Len(e) THEN [cacheStates |-> cs, playerCoins |-> pc]
    ELSE IF i \in gone THEN depositAllBtn(cs, pc, cellKey, e, i + 1, gone)
    ELSE LET r == depositCoin(cs, pc, cellKey, e[i].originI, e[i].originJ, e[i].serial)
         IN IF r.playerCoins = pc
            THEN depositAllBtn(cs, pc, cellKey, e, i + 1, gone)
            ELSE depositAllBtn(r.cacheStates, r.playerCoins, cellKey, e, i + 1,
                               gone \cup {firstLive(e, gone, e[i])})

\* the click on "Collect All" in the popup of the cell cellKey; a popup is
\* that of a cell with a live cache
CollectAll(cellKey) ==
    /\ cellKey \in DOMAIN cacheStates
    /\ LET r == collectAllBtn(cacheStates, playerCoins, cellKey,
                              Entries(cacheStates[cellKey]), 1, {})
       IN /\ cacheStates' = r.cacheStates
          /\ playerCoins' = r.playerCoins
          /\ mementos' = Shared(mementos, r.cacheStates, aliased)
          /\ last' = Op("collectAll", cellKey, r.playerCoins # playerCoins)
    /\ UNCHANGED <<rng, playerMarker, pathCoordinates, aliased, storage,
                   session, booted, generated, evicted, outcome>>
    /\ UNCHANGED <<geo, factory, variant>>

\* the click on "Deposit All" in the popup of the cell cellKey
DepositAll(cellKey) ==
    /\ cellKey \in DOMAIN cacheStates
    /\ LET r == depositAllBtn(cacheStates, playerCoins, cellKey,
                              Entries(playerCoins), 1, {})
       IN /\ cacheStates' = r.cacheStates
          /\ playerCoins' = r.playerCoins
          /\ mementos' = Shared(mementos, r.cacheStates, aliased)
          /\ last' = Op("depositAll", cellKey, r.playerCoins # playerCoins)
    /\ UNCHANGED <<rng, playerMarker, pathCoordinates, aliased, storage,
                   session, booted, generated, evicted, outcome>>
    /\ UNCHANGED <<geo, factory, variant>>

-----------------------------------------------------------------------------
(* GameManager.toggleGeolocation and the callbacks of its watch *)

game == <<rng, playerMarker, pathCoordinates, cacheStates, playerCoins, mementos,
          aliased, storage, session, booted, generated, evicted, outcome>>

\* the cells asked of the factory by (i, j): pairs whose digits run into
\* one another when nothing separates them, a pair with a negative index,
\* and the cell of the start
CellRequests == {<<1, 12>>, <<11, 2>>, <<-1, 2>>, StartCell}

\* cellFactory.getCell(i, j)
GetCell(i, j) ==
    LET r == CellFactory_getCell(cells, i, j)
    IN /\ cells' = r.cells
       /\ answers' = answers \cup {[i |-> i, j |-> j, cell |-> r.cell]}
       /\ last' = Op("getCell", <<i, j>>, r.cells # cells)
       /\ UNCHANGED <<game, geo, variant>>

\* cellFactory.getCellFromLatLng(lat, lng)
GetCellFromLatLng(lat, lng) ==
    LET r == CellFactory_getCellFromLatLng(cells, lat, lng)
    IN /\ cells' = r.cells
       /\ answers' = answers \cup {[i |-> lat \div CELLS_SCALE,
                                     j |-> lng \div CELLS_SCALE, cell |-> r.cell]}
       /\ last' = Op("getCellFromLatLng",
                     <<lat \div CELLS_SCALE, lng \div CELLS_SCALE>>, r.cells # cells)
       /\ UNCHANGED <<game, geo, variant>>

\* the positions navigator.geolocation reports: the start, another position
\* in the cell of the start, and a position one cell north and east of it
GeoSamples ==
    {OAKES_CLASSROOM,
     <<OAKES_CLASSROOM[1] + 1, OAKES_CLASSROOM[2] + 1>>,
     <<OAKES_CLASSROOM[1] + MOVEMENT_DELTA, OAKES_CLASSROOM[2] + MOVEMENT_DELTA>>}

\* the button "toggleLocation"
ToggleGeolocation ==
    /\ IF watchId = << >>
       THEN IF supported
            THEN /\ issued < MaxWatches
                 /\ highlight' = TRUE
                 /\ issued' = issued + 1
                 /\ watchId' = <<issued + 1>>
                 /\ watches' = watches \cup {issued + 1}
                 /\ last' = Op("toggle", NoCell, TRUE)
            ELSE /\ last' = Op("toggle", NoCell, FALSE)
                 /\ UNCHANGED <<watchId, highlight, watches, issued>>
       ELSE /\ watches' = watches \ {watchId[1]}
            /\ watchId' = << >>
            /\ highlight' = FALSE
            /\ last' = Op("toggle", NoCell, TRUE)
            /\ UNCHANGED issued
    /\ UNCHANGED <<game, supported, factory, variant>>

\* the success callback of the watch id, called with the position pos
GeoPosition(id, pos) ==
    /\ id \in watches
    /\ Len(pathCoordinates) < MaxTrailReset
    /\ updatePlayerPosition(pos)
    /\ UNCHANGED geo

\* an error callback that leaves the toggle as it is
GeoError_ignored(id, ends) ==
    /\ id \in watches
    /\ watches' = IF ends THEN watches \ {id} ELSE watches
    /\ last' = Op("error", NoCell, TRUE)
    /\ UNCHANGED <<game, watchId, highlight, issued, supported, factory, variant>>

\* The error callback of the watch id.  It does not call clearWatch, and
\* whether a watch goes on after an error is up to the browser: ends tells
\* whether this one is over.
GeoError(id, ends) ==
    /\ id \in watches
    /\ watchId' = << >>
    /\ highlight' = FALSE
    /\ watches' = IF ends THEN watches \ {id} ELSE watches
    /\ last' = Op("error", NoCell, TRUE)
    /\ UNCHANGED <<game, issued, supported, factory, variant>>

-----------------------------------------------------------------------------
(* The variant of part_002: caches that carry their own memento, a score    *)
(* and coins minted at each deposit.  The player starts on NULL_ISLAND and  *)
(* moves by whole tiles, so a position is the tile (i, j) it lies in, and   *)
(* the key `${i},${j}` is the pair <<i, j>>.  Cache.coins is an array: a    *)
(* sequence of coins [i, j, serial].  A memento is << >> (undefined) or     *)
(* <<coins>>.                                                               *)

TILE_DEGREES == 100

\* LatLng.distanceTo gives metres; here micrometres, as TILE_DEGREES is in
\* micro-degrees.  One tile side on the equator is 11.132 m.
TILE_MICROMETRES == 11132000

Isqrt(n) == CHOOSE r \in 0 .. n : r * r <= n /\ (r + 1) * (r + 1) > n

\* the distance between the corners of two tiles, to a whole tile side
distanceTo(a, b) ==
    TILE_MICROMETRES
    * Isqrt((a[1] - b[1]) * (a[1] - b[1]) + (a[2] - b[2]) * (a[2] - b[2]))

Cache(i, j) == [i |-> i, j |-> j, coins |-> << >>, memento |-> << >>]

Cache_saveState(cache) == [cache EXCEPT !.memento = <<cache.coins>>]

Cache_restoreState(cache, memento) == [cache EXCEPT !.coins = memento[1]]

Cache_addCoins(cache, coins) == [cache EXCEPT !.coins = @ \o coins]

Cache_collectCoins(cache) ==
    [cache |-> [cache EXCEPT !.coins = << >>], collectedCoins |-> Len(cache.coins)]

\* the Cache that spawnCache(i, j) makes when Math.random() gives it n coins
spawnCache(i, j, n) ==
    Cache_addCoins(Cache(i, j), [serial \in 1 .. n |-> [i |-> i, j |-> j, serial |-> serial - 1]])

\* The draws of Math.random().  For each cell, 0: the draw of the spawn
\* test is not below CACHE_SPAWN_PROBABILITY; n > 0: it is, or no test is
\* made, and the draw of spawnCache gives n coins, Math.floor(random * 5) + 1.
\* The cells of SpawnCells are those whose test may pass, and the counts
\* drawn are those of Counts.
SpawnCells == {<<0, 0>>, <<1, 0>>}

Counts == {1, 2}

Draws == [SpawnCells -> {0} \cup Counts]

\* i and j within NEIGHBORHOOD_SIZE of the player's, both ends included
Around(k, pos) ==
    /\ k[1] \in (pos[1] - NEIGHBORHOOD_SIZE) .. (pos[1] + NEIGHBORHOOD_SIZE)
    /\ k[2] \in (pos[2] - NEIGHBORHOOD_SIZE) .. (pos[2] + NEIGHBORHOOD_SIZE)

tooFar(cache, pos) ==
    distanceTo(pos, <<cache.i, cache.j>>) > TILE_DEGREES * NEIGHBORHOOD_SIZE * (1 + 1)

\* regenerateCachesAround(playerPos) on the Map cm, with the draws d.  A
\* cell around the player that is in cacheMap has its Cache restored from
\* its memento, if it has one, and then spawnCache puts a new Cache in its
\* place; a cell that is not is spawned if its test passes.  Then every
\* Cache of the Map that is too far is saved and deleted from the Map; its
\* rectangle stays.
regenerateCachesAround(cm, pos, d) ==
    LET again == {k \in DOMAIN cm : Around(k, pos)}
        new == {k \in SpawnCells \ DOMAIN cm : Around(k, pos) /\ d[k] > 0}
        made == [k \in again \cup new |-> spawnCache(k[1], k[2], d[k])]
        all == [k \in DOMAIN cm \cup new |-> IF k \in DOMAIN made THEN made[k] ELSE cm[k]]
        far == {k \in DOMAIN all : tooFar(all[k], pos)}
    IN [cacheMap |-> [k \in DOMAIN all \ far |-> all[k]],
        rectangles |-> [k \in DOMAIN made |->
                           IF k \in far THEN Cache_saveState(made[k]) ELSE made[k]],
        again |-> again]

\* the script of part_002, from its first line to its last
Variant(d) ==
    LET new == {k \in SpawnCells : Around(k, NULL_ISLAND) /\ d[k] > 0}
        made == [k \in new |-> spawnCache(k[1], k[2], d[k])]
    IN /\ playerPos = NULL_ISLAND
       /\ playerPoints = 0 /\ playerInventory = 0 /\ coinIdCounter = 0
       /\ cacheMap = made /\ rectangles = made

\* movePlayer(dx, dy), in tiles
movePlayer(dx, dy, d) ==
    LET newPos2 == <<playerPos[1] + dy, playerPos[2] + dx>>
        r == regenerateCachesAround(cacheMap, newPos2, d)
    IN /\ Abs(newPos2[1]) <= MaxDist /\ Abs(newPos2[2]) <= MaxDist
       /\ \A k \in r.again : d[k] > 0
       /\ playerPos' = newPos2
       /\ cacheMap' = r.cacheMap
       /\ rectangles' = r.rectangles
       /\ last' = Op("movePlayer", newPos2, TRUE)
       /\ UNCHANGED <<playerPoints, playerInventory, coinIdCounter>>
       /\ UNCHANGED <<game, geo, factory>>

\* the Cache of the rectangle k is the object cacheMap holds for k, if any
Written(cm, k, cache) == [x \in DOMAIN cm |-> IF x = k THEN cache ELSE cm[x]]

\* the button "collectCoins" of the popup of the rectangle k
CollectCoins(k) ==
    /\ k \in DOMAIN rectangles
    /\ playerInventory + Len(rectangles[k].coins) <= MaxHeld
    /\ IF Len(rectangles[k].coins) > 0
       THEN LET r == Cache_collectCoins(rectangles[k])
            IN /\ playerInventory' = playerInventory + r.collectedCoins
               /\ rectangles' = Written(rectangles, k, r.cache)
               /\ cacheMap' = Written(cacheMap, k, r.cache)
               /\ last' = Op("collectCoins", k, TRUE)
       ELSE /\ last' = Op("collectCoins", k, FALSE)
            /\ UNCHANGED <<playerInventory, rectangles, cacheMap>>
    /\ UNCHANGED <<playerPos, playerPoints, coinIdCounter>>
    /\ UNCHANGED <<game, geo, factory>>

\* the coins a deposit mints: serial: coinIdCounter++, once for each
minted(i, j, counter, n) ==
    [x \in 1 .. n |-> [i |-> i, j |-> j, serial |-> counter + x - 1]]

\* a deposit that sets the score to the number of coins deposited
depositCoins_set(points, inventory) == inventory

\* playerPoints += playerInventory
depositCoins_points(points, inventory) == points + inventory

\* the button "depositCoins" of the popup of the rectangle k
DepositCoins(k) ==
    /\ k \in DOMAIN rectangles
    /\ coinIdCounter + playerInventory <= MaxMinted
    /\ IF playerInventory > 0
       THEN LET depositCoins == minted(rectangles[k].i, rectangles[k].j,
                                       coinIdCounter, playerInventory)
                cache == Cache_addCoins(rectangles[k], depositCoins)
            IN /\ coinIdCounter' = coinIdCounter + playerInventory
               /\ rectangles' = Written(rectangles, k, cache)
               /\ cacheMap' = Written(cacheMap, k, cache)
               /\ playerPoints' = depositCoins_points(playerPoints, playerInventory)
               /\ playerInventory' = 0
               /\ last' = Op("depositCoins", k, TRUE)
       ELSE /\ last' = Op("depositCoins", k, FALSE)
            /\ UNCHANGED <<coinIdCounter, rectangles, cacheMap, playerPoints,
                           playerInventory>>
    /\ UNCHANGED playerPos
    /\ UNCHANGED <<game, geo, factory>>

\* the button "resetGame" of part_002
ResetPoints ==
    /\ playerPoints' = 0
    /\ playerInventory' = 0
    /\ last' = Op("resetGame", NoCell, TRUE)
    /\ UNCHANGED <<playerPos, coinIdCounter, cacheMap, rectangles>>
    /\ UNCHANGED <<game, geo, factory>>

-----------------------------------------------------------------------------
(* Specifications *)

\* one session: moves, collects and deposits
Next ==
    \/ \E d \in Directions : MovePlayer(d)
    \/ \E k \in CellKeys, t \in Triples : CollectCoin(k, t)
    \/ \E k \in CellKeys, t \in Triples : DepositCoin(k, t)

Spec == Init /\ [][Next]_vars

\* one session with the reset button
NextReset ==
    \/ \E d \in Directions : ShortMove(d)
    \/ \E k \in CellKeys, t \in Triples : CollectCoin(k, t)
    \/ \E k \in CellKeys, t \in Triples : DepositCoin(k, t)
    \/ \E confirmed \in BOOLEAN : ResetGame(confirmed)

SpecReset == Start({3}) /\ [][NextReset]_vars

\* several sessions: the page is reloaded
NextReload ==
    \/ \E d \in Directions : MovePlayer(d)
    \/ \E k \in CellKeys, t \in Triples : CollectCoin(k, t)
    \/ \E k \in CellKeys, t \in Triples : DepositCoin(k, t)
    \/ Reload

SpecReload == Start({1}) /\ [][NextReload]_vars

\* several sessions, with the buttons of the popups
\* the popup buttons are followed along the meridian of the start
Meridian == {"north", "south"}

NextPopup ==
    \/ \E d \in Meridian : MovePlayer(d)
    \/ \E k \in CellKeys, t \in Triples : CollectCoin(k, t)
    \/ \E k \in CellKeys, t \in Triples : DepositCoin(k, t)
    \/ \E k \in CellKeys : CollectAll(k)
    \/ \E k \in CellKeys : DepositAll(k)
    \/ Reload

SpecPopup == Start({1}) /\ [][NextPopup]_vars

\* the buttons of a popup: a popup is bound to the rectangle of a cache of the
\* store, and is closed when the refresh removes the rectangle
CollectLive(cellKey, t) == cellKey \in DOMAIN cacheStates /\ CollectCoin(cellKey, t)

DepositLive(cellKey, t) == cellKey \in DOMAIN cacheStates /\ DepositCoin(cellKey, t)

\* one session in which every collect and deposit comes from a popup
NextLive ==
    \/ \E d \in Directions : MovePlayer(d)
    \/ \E k \in CellKeys, t \in Triples : CollectLive(k, t)
    \/ \E k \in CellKeys, t \in Triples : DepositLive(k, t)

SpecLive == Init /\ [][NextLive]_vars

\* one session with the popup buttons and the reset button
NextLiveReset ==
    \/ \E d \in Directions : ShortMove(d)
    \/ \E k \in CellKeys, t \in Triples : CollectLive(k, t)
    \/ \E k \in CellKeys, t \in Triples : DepositLive(k, t)
    \/ \E confirmed \in BOOLEAN : ResetGame(confirmed)

SpecLiveReset == Start({3}) /\ [][NextLiveReset]_vars

\* one session that starts from an item found in localStorage
NextLoad ==
    \/ \E d \in Directions : MovePlayer(d)
    \/ \E k \in CellKeys, t \in Triples : CollectCoin(k, t)
    \/ \E k \in CellKeys, t \in Triples : DepositCoin(k, t)

SpecLoad == StartFrom({5}, Items) /\ [][NextLoad]_vars

\* one session with geolocation tracking and the reset button
NextGeo ==
    \/ \E d \in Directions : ShortMove(d)
    \/ ToggleGeolocation
    \/ \E id \in watches, pos \in GeoSamples : GeoPosition(id, pos)
    \/ \E id \in watches, ends \in BOOLEAN : GeoError(id, ends)
    \/ \E confirmed \in BOOLEAN : ResetGame(confirmed)

SpecGeo == StartWith({3}, BOOLEAN) /\ [][NextGeo]_vars

\* the factory alone: any sequence of requests
NextCells ==
    \/ \E c \in CellRequests : GetCell(c[1], c[2])
    \/ \E pos \in GeoSamples : GetCellFromLatLng(pos[1], pos[2])

SpecCells == Start({3}) /\ [][NextCells]_vars

\* the variant of part_002
NextVariant ==
    \/ \E dx \in {0 - 1, 1}, d \in Draws : movePlayer(dx, 0, d)
    \/ \E dy \in {0 - 1, 1}, d \in Draws : movePlayer(0, dy, d)
    \/ \E k \in DOMAIN rectangles : CollectCoins(k)
    \/ \E k \in DOMAIN rectangles : DepositCoins(k)
    \/ ResetPoints

SpecVariant ==
    /\ GameStart({3}, {TRUE})
    /\ \E d \in Draws : Variant(d)
    /\ [][NextVariant]_vars

-----------------------------------------------------------------------------
(* Claims *)

Refreshes == {"init", "move", "reset", "reload"}

Live == AllOf(cacheStates)

Kept == AllOf(mementos)

Serials(s) == {c.serial : c \in DOMAIN s}

\* C1 (as claimed): every coin generated so far is in exactly one container
\* among the live caches, the inventory and the mementos: the coins of the
\* three kinds of container, counted together, are the coins generated.
C1_Conservation == Plus(Live, Plus(playerCoins, Kept)) = generated

\* C2: a cell that left the store and that a later refresh has in view is in
\* the store again after that refresh, with exactly the coins it held when it
\* left, and it was not generated anew.
C2_MementoFidelity ==
    \A k \in DOMAIN last.awaited :
        /\ k \in DOMAIN cacheStates
        /\ cacheStates[k] = last.awaited[k]
        /\ k \in last.restored
        /\ k \notin last.fresh

\* C2 witness: the cache of three coins lost serial 1 to the player, left the
\* view and is back with serials 0 and 2.
C2_Witness ==
    /\ last.op = "move"
    /\ \E k \in DOMAIN last.awaited :
          /\ Serials(cacheStates[k]) = {0, 2}
          /\ Size(cacheStates[k]) = 2
          /\ spawns(getCell(k[1], k[2]))
          /\ \E c \in DOMAIN playerCoins : originCellKey(c) = k /\ c.serial = 1

\* C3: a cache that left the store without coins has a memento without coins,
\* and when a later refresh has its cell in view the cell is in the store
\* again, without coins.
C3_EmptyStaysEmpty ==
    /\ \A k \in DOMAIN evicted :
          evicted[k] = NewSet => k \in DOMAIN mementos /\ mementos[k] = NewSet
    /\ \A k \in DOMAIN last.awaited :
          last.awaited[k] = NewSet =>
              k \in DOMAIN cacheStates /\ cacheStates[k] = NewSet

\* C3 witness: a cell that passes the spawn test left the store without coins
\* and is back in the store, without coins.
C3_Witness ==
    /\ last.op = "move"
    /\ \E k \in DOMAIN last.awaited :
          /\ last.awaited[k] = NewSet
          /\ spawns(getCell(k[1], k[2]))
          /\ cacheStates[k] = NewSet

\* C4: no step changes the identity of a coin.  A collect or a deposit leaves
\* the coins of the live caches and the inventory, counted together, as they
\* were; a confirmed reset puts every coin of the inventory, as it is, into
\* the caretaker; and whatever the step, a coin that is somewhere after it was
\* somewhere before it or is a coin this step generated for its own cell.
Present == DOMAIN Live \cup DOMAIN playerCoins \cup DOMAIN Kept

C4_IdentityStable ==
    [][ /\ last'.op \in {"collect", "deposit"} =>
              Plus(AllOf(cacheStates'), playerCoins') = Plus(Live, playerCoins)
        /\ (last'.op = "reset" /\ last'.changed) =>
              \A c \in DOMAIN playerCoins : c \in DOMAIN AllOf(mementos')
        /\ \A c \in DOMAIN AllOf(cacheStates') \cup DOMAIN playerCoins'
                      \cup DOMAIN AllOf(mementos') :
              \/ c \in Present
              \/ /\ originCellKey(c) \in last'.fresh
                 /\ c \in DOMAIN createCache(getCell(c.originI, c.originJ))
      ]_vars

\* C4 witness: a deposit has put a coin into a cache that is not the cache of
\* its origin, next to that cache's own coin, and the coin has its origin
\* and its serial.
C4_Witness ==
    /\ last.op = "deposit" /\ last.changed
    /\ last.cell \in DOMAIN outcome /\ outcome[last.cell].spawned
    /\ \E c \in DOMAIN cacheStates[last.cell] :
          /\ originCellKey(c) # last.cell
          /\ c \in DOMAIN outcome[originCellKey(c)].coins
          /\ \E d \in DOMAIN cacheStates[last.cell] : originCellKey(d) = last.cell

\* C5 (as claimed): collectCoin changes nothing when the cell has no live
\* cache or the coin is not in it, and a second collectCoin with the same
\* cell and coin ends where the first one ended.
Here == [cacheStates |-> cacheStates, playerCoins |-> playerCoins]

C5_CollectIdempotent ==
    \A k \in CellKeys, t \in Triples :
        LET once == collectCoin(cacheStates, playerCoins, k, t[1], t[2], t[3])
            twice == collectCoin(once.cacheStates, once.playerCoins, k, t[1], t[2], t[3])
            absent == \/ k \notin DOMAIN cacheStates
                      \/ \A c \in DOMAIN cacheStates[k] : ~Matches(c, t[1], t[2], t[3])
        IN (absent => once = Here) /\ twice = once

\* C6 (as claimed): depositCoin changes nothing when the coin is not in the
\* inventory, and a second depositCoin with the same cell and coin ends
\* where the first one ended.
C6_DepositIdempotent ==
    \A k \in CellKeys, t \in Triples :
        LET once == depositCoin(cacheStates, playerCoins, k, t[1], t[2], t[3])
            twice == depositCoin(once.cacheStates, once.playerCoins, k, t[1], t[2], t[3])
            absent == \A c \in DOMAIN playerCoins : ~Matches(c, t[1], t[2], t[3])
        IN (absent => once = Here) /\ twice = once

\* C7: whenever a refresh runs the spawn test for a cell, the decision and
\* the coins generated are those of the first time the cell was tested,
\* whatever happened in between and in whichever session.
C7_Determinism ==
    \A k \in last.tested :
        /\ k \in DOMAIN outcome
        /\ outcome[k].spawned = (k \in last.fresh)
        /\ k \in last.fresh => cacheStates[k] = outcome[k].coins

\* C7 witness: in a second session, with coins in the inventory, a cell is
\* generated for the second time.
C7_Witness ==
    /\ session = 2 /\ last.op = "move"
    /\ playerCoins # NewSet
    /\ \E k \in last.fresh : \A c \in DOMAIN cacheStates[k] : generated[c] = 2

\* C8: a cache a refresh has just generated for the cell (i, j) holds
\* floor(luck("i,j,coins") * 5) + 1 coins, between 1 and 5, one of each
\* serial 0 .. count - 1, all with origin (i, j).
C8_FreshCount ==
    \A k \in last.fresh :
        LET count == (luck(<<k[1], k[2], "coins">>) * MAX_COINS) \div LUCK_RANGE + 1
        IN /\ count \in 1 .. MAX_COINS
           /\ Size(cacheStates[k]) = count
           /\ Serials(cacheStates[k]) = 0 .. (count - 1)
           /\ \A c \in DOMAIN cacheStates[k] :
                 originCellKey(c) = k /\ cacheStates[k][c] = 1

\* C8 witness: a move has just generated a cache of four coins, in a world
\* where a cache of five coins was generated before.
C8_Witness ==
    /\ last.op = "move"
    /\ \E k \in last.fresh : Size(cacheStates[k]) = MAX_COINS - 1
    /\ \E k \in DOMAIN outcome : Size(outcome[k].coins) = MAX_COINS

\* C9: after a refresh, a cell in view that has a memento is in the store
\* with the memento's coins and its spawn test was not run; a cell in view
\* that has none is in the store if and only if luck("i,j") is below the
\* spawn probability.
C9_LookupOrder ==
    last.op \in Refreshes =>
        \A cell \in VisibleCells(playerMarker) :
            LET k == getCellKey(cell)
            IN IF k \in DOMAIN mementos
               THEN /\ k \in DOMAIN cacheStates
                    /\ cacheStates[k] = mementos[k]
                    /\ k \notin last.tested
               ELSE /\ k \in DOMAIN cacheStates
                        <=> luck(<<cell.i, cell.j>>) < CACHE_SPAWN_PROBABILITY
                    /\ k \in DOMAIN cacheStates => k \in last.fresh

\* C9 witness: a move has restored a cell from its memento, generated a cell
\* that had none, and left out a cell in view that has no memento and whose
\* luck is the spawn probability itself.
C9_Witness ==
    /\ last.op = "move"
    /\ last.restored # {} /\ last.fresh # {}
    /\ \E cell \in VisibleCells(playerMarker) :
          /\ luck(<<cell.i, cell.j>>) = CACHE_SPAWN_PROBABILITY
          /\ getCellKey(cell) \notin DOMAIN mementos
          /\ getCellKey(cell) \notin DOMAIN cacheStates

\* C10 (as claimed): after a refresh no cell key is both in the live cache
\* store and in the caretaker's memento map.
C10_Exclusive ==
    last.op \in Refreshes => DOMAIN cacheStates \cap DOMAIN mementos = {}

\* C11: a collect or a deposit never changes the coins a memento holds, be
\* it the memento saved from the live cache written to or the memento that
\* cache was restored from.
C11_MementoImmutable ==
    [][last'.op \in {"collect", "deposit"} => mementos' = mementos]_vars

\* C11 witness: a coin has been collected from, or deposited into, a live
\* cache that was restored from a memento, and the memento still holds what
\* the cache held before.
C11_Witness ==
    /\ last.op \in {"collect", "deposit"} /\ last.changed
    /\ last.cell \in DOMAIN cacheStates
    /\ last.cell \in DOMAIN mementos
    /\ mementos[last.cell] # cacheStates[last.cell]

\* C12 (as claimed): after a refresh with the player in the cell (ci, cj),
\* the cells examined (restored from a memento or put to the spawn test) are
\* exactly the cells (ci + di, cj + dj) with di and dj between
\* -NEIGHBORHOOD_SIZE and NEIGHBORHOOD_SIZE, both included.
C12_SymmetricViewport ==
    last.op \in Refreshes =>
        LET centerCell == getCellFromLatLng(playerMarker[1], playerMarker[2])
        IN \A cell \in Candidates(mementos) :
               (/\ Abs(cell.i - centerCell.i) <= NEIGHBORHOOD_SIZE
                /\ Abs(cell.j - centerCell.j) <= NEIGHBORHOOD_SIZE)
               <=> getCellKey(cell) \in last.restored \cup last.tested

\* C13: after a refresh every key of the live store is a cell of the new
\* viewport, and a move leaves no cache in the store that was live before it
\* and lies outside the new viewport: each such cache has a memento with the
\* coins it held when the move began.
C13_Eviction ==
    [][ /\ last'.op \in Refreshes =>
              \A k \in DOMAIN cacheStates' :
                  getCell(k[1], k[2]) \in VisibleCells(playerMarker')
        /\ last'.op = "move" =>
              \A k \in DOMAIN cacheStates :
                  getCell(k[1], k[2]) \notin VisibleCells(playerMarker') =>
                      /\ k \notin DOMAIN cacheStates'
                      /\ k \in DOMAIN mementos'
                      /\ mementos'[k] = cacheStates[k]
      ]_vars

\* C13 witness: a move has put a cache out of view that had a memento before
\* and had lost a coin since; its memento holds the coins it held last.
C13_Witness ==
    /\ last.op = "move"
    /\ \E k \in DOMAIN evicted :
          /\ k \notin DOMAIN cacheStates
          /\ getCell(k[1], k[2]) \notin VisibleCells(playerMarker)
          /\ mementos[k] = evicted[k]
          /\ k \in DOMAIN outcome
          /\ Size(evicted[k]) < Size(outcome[k].coins)
          /\ Len(pathCoordinates) = 3

\* the coins known for the cell k: those of its live cache, or else those of
\* its memento
Known(cs, m, k) == IF k \in DOMAIN cs THEN cs[k] ELSE m[k]

\* C14 (as claimed): when the page is loaded again right after a save, the
\* new session has the same inventory, the same trail and, for every cache
\* known before, live or held as a memento only, the same coins.
C14_RoundTrip ==
    [][ (last.op = "move" /\ last'.op = "reload") =>
            /\ playerCoins' = playerCoins
            /\ pathCoordinates' = pathCoordinates
            /\ \A k \in DOMAIN cacheStates \cup DOMAIN mementos :
                  /\ k \in DOMAIN cacheStates' \cup DOMAIN mementos'
                  /\ Known(cacheStates', mementos', k) = Known(cacheStates, mementos, k)
      ]_vars

\* C15 (as claimed): no identity triple occurs more than once across the
\* inventory and the live caches.
C15_UniqueTriples ==
    \A c \in DOMAIN Plus(Live, playerCoins) :
        /\ Plus(Live, playerCoins)[c] = 1
        /\ \A d \in DOMAIN Plus(Live, playerCoins) :
              Matches(d, c.originI, c.originJ, c.serial) => d = c

\* the session was built from a record that loadGameState took whole
Loaded == booted # << >> /\ ~loadGameState(booted).failed

\* C16: right after a session is built from a record, every cache of the
\* record whose cell is not in view is in the caretaker with the record's
\* coins and not in the live store; and when a later refresh has such a cell
\* in view, its live cache holds the record's coins, restored and not put to
\* the spawn test.
C16_LoadedOutOfView ==
    Loaded =>
        /\ last.op = "reload" =>
              \A k \in DOMAIN booted[1].cacheStates :
                  getCell(k[1], k[2]) \notin VisibleCells(playerMarker) =>
                      /\ k \notin DOMAIN cacheStates
                      /\ k \in DOMAIN mementos
                      /\ mementos[k] = booted[1].cacheStates[k]
        /\ \A k \in DOMAIN last.awaited \cap DOMAIN booted[1].cacheStates :
              last.awaited[k] = booted[1].cacheStates[k] =>
                  /\ k \in DOMAIN cacheStates
                  /\ cacheStates[k] = booted[1].cacheStates[k]
                  /\ k \in last.restored
                  /\ k \notin last.tested

\* C16 witness: a move has brought into view a cell whose cache was in the
\* record and out of view at the load; the cell passes the spawn test, and
\* its live cache holds the record's coins, fewer than a generation gives.
C16_Witness ==
    /\ Loaded
    /\ last.op = "move"
    /\ \E k \in DOMAIN last.awaited \cap DOMAIN booted[1].cacheStates :
          /\ cacheStates[k] = booted[1].cacheStates[k]
          /\ spawns(getCell(k[1], k[2]))
          /\ Size(cacheStates[k]) < numCoins(getCell(k[1], k[2]))

\* C17 (as claimed): a session built from a text that does not parse, or
\* from a record with a field missing or ill-typed, starts as a session
\* built from nothing: empty inventory, the one-position trail, the player
\* at the start, and no cache nor memento taken from the record.
C17_FreshOnFailure ==
    (/\ last.op = "reload"
     /\ booted # << >>
     /\ (~booted[1].parses \/ booted[1].kind # AllOk))
    => /\ playerCoins = NewSet
       /\ pathCoordinates = <<OAKES_CLASSROOM>>
       /\ playerMarker = OAKES_CLASSROOM
       /\ cacheStates = refreshVisibleArea(NewMap, NewMap, OAKES_CLASSROOM).cacheStates
       /\ mementos = NewMap

\* C18 (as claimed): whenever tracking is off (watchId is null) no watch is
\* registered that could still call back, and at most one watch is
\* registered at any time.
C18_NoWatchWhenOff ==
    /\ watchId = << >> => watches = {}
    /\ Cardinality(watches) <= 1

\* C19: an error callback, and a toggle without geolocation support, leave
\* tracking off (watchId null, no highlight) and change neither position,
\* trail, caches, mementos nor inventory; and a press of a direction button
\* after an error moves the player by one step and appends to the trail.
C19_ErrorNotFatal ==
    [][ /\ (last'.op = "error" \/ (last'.op = "toggle" /\ ~supported)) =>
              /\ watchId' = << >>
              /\ highlight' = FALSE
              /\ UNCHANGED <<playerMarker, pathCoordinates, cacheStates, mementos,
                             playerCoins, storage>>
        /\ (last.op = "error" /\ last'.op = "move" /\ watches = {}) =>
              /\ \E d \in Directions : playerMarker' = newPos(d)
              /\ pathCoordinates' = Append(pathCoordinates, playerMarker')
      ]_vars

\* C19 witness: an error callback has come after tracking had moved the
\* player, and tracking is off.
C19_Witness ==
    /\ last.op = "error"
    /\ watchId = << >> /\ highlight = FALSE
    /\ Len(pathCoordinates) > 1
    /\ playerMarker \in GeoSamples

\* C20 (as claimed): a position update appends one position at the end of
\* the trail and no step removes or rewrites a position of the trail.
C20_AppendOnly ==
    [][ /\ Len(pathCoordinates') >= Len(pathCoordinates)
        /\ SubSeq(pathCoordinates', 1, Len(pathCoordinates)) = pathCoordinates
        /\ last'.op = "move" =>
              pathCoordinates' = Append(pathCoordinates, playerMarker')
      ]_vars

\* C20 (amended): a position update, by a direction button or by a
\* geolocation sample, appends the new position at the end of the trail; a
\* confirmed reset replaces the trail by the player's position alone; no
\* other step of a session changes the trail.
C20_AppendOrReset ==
    [][ /\ last'.op = "move" =>
              pathCoordinates' = Append(pathCoordinates, playerMarker')
        /\ last'.op = "reset" =>
              pathCoordinates' = <<playerMarker>> /\ playerMarker' = playerMarker
        /\ last'.op \notin {"move", "reset"} =>
              pathCoordinates' = pathCoordinates
      ]_vars

\* C20 witness: after a reset away from the start, a geolocation sample has
\* been appended to the trail.
C20_Witness ==
    /\ last.op = "move"
    /\ pathCoordinates[1] # OAKES_CLASSROOM
    /\ Len(pathCoordinates) = 2
    /\ pathCoordinates[2] = playerMarker
    /\ LET p == pathCoordinates[1]
       IN playerMarker \notin {<<p[1] + MOVEMENT_DELTA, p[2]>>,
                               <<p[1] - MOVEMENT_DELTA, p[2]>>,
                               <<p[1], p[2] + MOVEMENT_DELTA>>,
                               <<p[1], p[2] - MOVEMENT_DELTA>>}

\* C21: whatever the requests, two requests with equal (i, j) were given the
\* same object, the object given has the i and the j asked for, no two
\* entries of the index are for the same (i, j) or hold the same object,
\* and no step drops or replaces an entry of the index.
C21_Canonical ==
    [][ /\ \A a, b \in answers' : (a.i = b.i /\ a.j = b.j) => a.cell = b.cell
        /\ \A a \in answers' : a.cell.i = a.i /\ a.cell.j = a.j
        /\ \A k1, k2 \in DOMAIN cells' :
              \/ k1 = k2
              \/ /\ <<cells'[k1].i, cells'[k1].j>> # <<cells'[k2].i, cells'[k2].j>>
                 /\ cells'[k1].ref # cells'[k2].ref
        /\ \A k \in DOMAIN cells : k \in DOMAIN cells' /\ cells'[k] = cells[k]
      ]_vars

\* C21 witness: the index holds the two cells whose digits run together and
\* the cell of the start, and a request by position for the cell of the
\* start was given the object made before.
C21_Witness ==
    /\ last.op = "getCellFromLatLng" /\ ~last.changed
    /\ last.cell = StartCell
    /\ {key(1, 12), key(11, 2), key(StartCell[1], StartCell[2])} \subseteq DOMAIN cells
    /\ cells[key(StartCell[1], StartCell[2])].ref = 1

\* the coins the first generation of the cell k gave, none if it gave no cache
Initial(k) == IF k \in DOMAIN outcome THEN outcome[k].coins ELSE NewSet

\* C22 (as claimed): right after a confirmed reset the inventory is empty
\* and every cache known, live or held as a memento, holds exactly the coins
\* its cell was first generated with.
C22_ResetRestores ==
    last.op = "reset" =>
        /\ playerCoins = NewSet
        /\ \A k \in DOMAIN cacheStates \cup DOMAIN mementos :
              Known(cacheStates, mementos, k) = Initial(k)

\* C23: in a refresh the save of every live cache and the clearing of the
\* store come before any cell in view is restored or generated.  After a
\* move or a confirmed reset, every cache that was live when the refresh
\* began has a memento with the coins it held then; each of them still in
\* view is restored with exactly these coins, not with those of an older
\* memento; and no cell is both restored and generated or tested.
C23_SaveBeforeRestore ==
    [][ last'.op \in {"move", "reset"} =>
            LET before == IF last'.op = "reset"
                          THEN returnCoins(cacheStates, playerCoins)
                          ELSE cacheStates
            IN /\ \A k \in DOMAIN before :
                     /\ k \in DOMAIN mementos'
                     /\ mementos'[k] = before[k]
                     /\ k \in DOMAIN cacheStates' =>
                            /\ cacheStates'[k] = before[k]
                            /\ k \in last'.restored
               /\ last'.restored \cap (last'.fresh \cup last'.tested) = {}
               /\ DOMAIN cacheStates' = last'.restored \cup last'.fresh
      ]_vars

\* C23 witness: a refresh has overwritten the memento of a cache with the
\* coins the cache held live, which were not those of the memento, and has
\* restored the cache with them.
C23_Witness ==
    /\ last.op \in {"move", "reset"}
    /\ \E k \in last.replaced :
          /\ k \in last.restored
          /\ cacheStates[k] = mementos[k]
          /\ cacheStates[k] # Initial(k)

\* the number of coins the step has put into the cache of the rectangle k
Deposited(k) == Len(rectangles'[k].coins) - Len(rectangles[k].coins)

\* C24 (as claimed): in the variant of part_002 no step decreases the
\* score, and a deposit increases it by the number of coins deposited.
C24_ScoreMonotonic ==
    [][ /\ playerPoints' >= playerPoints
        /\ (last'.op = "depositCoins" /\ last'.changed) =>
              playerPoints' = playerPoints + Deposited(last'.cell)
      ]_vars

\* C24 (amended): a deposit increases the score by the number of coins
\* deposited, which is the whole inventory; the reset button sets the score
\* to 0; no other step changes the score.
C24_ScoreDepositOrReset ==
    [][ /\ (last'.op = "depositCoins" /\ last'.changed) =>
              /\ playerPoints' = playerPoints + Deposited(last'.cell)
              /\ Deposited(last'.cell) = playerInventory
              /\ Deposited(last'.cell) > 0
        /\ last'.op = "resetGame" => playerPoints' = 0
        /\ (last'.op # "resetGame" /\ ~(last'.op = "depositCoins" /\ last'.changed)) =>
              playerPoints' = playerPoints
      ]_vars

\* C24 witness: a second deposit, of one coin into a cache without coins,
\* has brought the score from 1 to 2.
C24_Witness ==
    /\ last.op = "depositCoins" /\ last.changed
    /\ playerPoints = 2 /\ coinIdCounter = 2
    /\ rectangles[last.cell].coins =
          <<[i |-> last.cell[1], j |-> last.cell[2], serial |-> 1]>>

\* C25 (as claimed): in the variant of part_002 a move leaves the coins of
\* a cache that is in cacheMap before and after it as they were, and a cache
\* that was saved and deleted for its distance is on the map again, with the
\* coins saved, once a move has its cell around the player.
C25_KnownKept ==
    [][ last'.op = "movePlayer" =>
            /\ \A k \in DOMAIN cacheMap \cap DOMAIN cacheMap' :
                  cacheMap'[k].coins = cacheMap[k].coins
            /\ \A k \in DOMAIN rectangles \ DOMAIN cacheMap :
                  (rectangles[k].memento # << >> /\ Around(k, playerPos')) =>
                      /\ k \in DOMAIN rectangles'
                      /\ rectangles'[k].coins = rectangles[k].memento[1]
      ]_vars

\* C26 (as claimed): in the variant of part_002 no cache holds two coins
\* with the same (i, j, serial).
C26_UniqueSerials ==
    \A k \in DOMAIN rectangles :
        \A a, b \in 1 .. Len(rectangles[k].coins) :
            rectangles[k].coins[a] = rectangles[k].coins[b] => a = b

\* the live caches other than that of the cell k
Others(cs, k) == [x \in DOMAIN cs \ {k} |-> cs[x]]

\* C27 (as claimed): a collect or a deposit that succeeds moves one coin:
\* the coin is in the inventory (collect) or in the live cache of the cell
\* named (deposit) and no longer where it was; the other live caches, the
\* mementos, the trail and the position are as before, and so is the number
\* of coins in the live caches and the inventory together.
C27_MovesOne ==
    [][ (last'.op \in {"collect", "deposit"} /\ last'.changed) =>
            LET k == last'.cell
                old == IF k \in DOMAIN cacheStates THEN cacheStates[k] ELSE NewSet
            IN /\ k \in DOMAIN cacheStates'
               /\ Others(cacheStates', k) = Others(cacheStates, k)
               /\ UNCHANGED <<mementos, pathCoordinates, playerMarker>>
               /\ Size(AllOf(cacheStates')) + Size(playerCoins')
                     = Size(Live) + Size(playerCoins)
               /\ IF last'.op = "collect"
                  THEN \E c \in DOMAIN old :
                          /\ cacheStates'[k] = SetDelete(old, c)
                          /\ playerCoins' = SetAdd(playerCoins, c)
                          /\ c \notin DOMAIN cacheStates'[k]
                  ELSE \E c \in DOMAIN playerCoins :
                          /\ playerCoins' = SetDelete(playerCoins, c)
                          /\ cacheStates'[k] = SetAdd(old, c)
                          /\ c \notin DOMAIN playerCoins'
      ]_vars

\* C28: a confirmed reset leaves the player where it is, makes the trail
\* that position alone, empties the inventory and removes the record from
\* localStorage; a declined reset changes nothing.
C28_ResetFrame ==
    [][ /\ last'.op = "reset" =>
              /\ playerMarker' = playerMarker
              /\ pathCoordinates' = <<playerMarker>>
              /\ playerCoins' = NewSet
              /\ storage' = << >>
        /\ last'.op = "declined" =>
              UNCHANGED <<playerMarker, pathCoordinates, cacheStates, playerCoins,
                          mementos, storage, watchId, highlight, watches>>
      ]_vars

\* C28 witness: a confirmed reset away from the start, with coins in the
\* inventory when it began.
C28_Witness ==
    /\ last.op = "reset" /\ last.returned > 0
    /\ playerMarker # OAKES_CLASSROOM
    /\ pathCoordinates = <<playerMarker>>
    /\ playerCoins = NewSet
    /\ storage = << >>

\* C29: "Collect All" on the popup of a cell puts every coin of the cell's
\* live cache into the inventory and leaves the cache without coins;
\* "Deposit All" puts every coin of the inventory into the cell's cache and
\* leaves the inventory without coins; each coin is moved once, and no
\* other cache changes.
C29_AllMoved ==
    [][ last'.op \in {"collectAll", "depositAll"} =>
            LET k == last'.cell
            IN /\ Others(cacheStates', k) = Others(cacheStates, k)
               /\ IF last'.op = "collectAll"
                  THEN /\ cacheStates'[k] = NewSet
                       /\ playerCoins' = Plus(playerCoins, cacheStates[k])
                  ELSE /\ playerCoins' = NewSet
                       /\ cacheStates'[k] = Plus(cacheStates[k], playerCoins)
      ]_vars

\* C29 witness: "Collect All" has emptied a cache of three coins into an
\* inventory that held a coin with the triple of one of them.
C29_Witness ==
    /\ last.op = "collectAll" /\ last.changed
    /\ cacheStates[last.cell] = NewSet
    /\ Size(playerCoins) = 4
    /\ \E c \in DOMAIN playerCoins : playerCoins[c] = 2

\* the coins of the mementos of the cells that have no live cache
Effective ==
    AllOf([k \in DOMAIN mementos \ DOMAIN cacheStates |-> mementos[k]])

\* every coin generated so far is once in the inventory, the live caches and
\* the mementos of the cells that are not live, taken together
C30_ExactlyOne ==
    /\ Plus(Live, Plus(playerCoins, Effective)) = generated
    /\ \A c \in DOMAIN generated : generated[c] = 1

\* a move saves every live cache over its memento, whatever the memento
\* held, before it restores any cache, and restores these caches as saved
C30_StaleOverwritten ==
    last'.op = "move" =>
        \A k \in DOMAIN cacheStates :
            /\ k \in DOMAIN mementos' /\ mementos'[k] = cacheStates[k]
            /\ k \in DOMAIN cacheStates' => cacheStates'[k] = cacheStates[k]

\* C30: effective conservation.  In a session of moves and of collects and
\* deposits addressed to cells with a live cache, every coin generated is in
\* exactly one place among the inventory, the live caches and the mementos
\* of the cells with no live cache; the memento of a live cell, which may
\* differ from the live cache, is overwritten by the next refresh before
\* any cache is restored from it.
C30_Effective == []C30_ExactlyOne /\ [][C30_StaleOverwritten]_vars

\* C30 witness: a move has overwritten the stale memento of a live cache
\* with the coins the cache held and restored the cache with them, while the
\* player holds a coin and a cell out of view keeps coins in its memento.
C30_Witness ==
    /\ last.op = "move"
    /\ playerCoins # NewSet
    /\ Effective # NewSet
    /\ \E k \in last.replaced \cap last.restored :
          /\ cacheStates[k] = mementos[k]
          /\ cacheStates[k] # Initial(k)

\* the identities of the coins held anywhere: inventory, live caches, mementos
Tokens(cs, pc, m) ==
    {<<c.originI, c.originJ, c.serial>> :
        c \in DOMAIN AllOf(cs) \cup DOMAIN pc \cup DOMAIN AllOf(m)}

\* C31 (as claimed): a confirmed reset, with the refresh it runs, loses no
\* coin: every coin that was in the inventory, in a live cache or in a
\* memento before the reset is in a live cache or in a memento after it.
C31_ResetKeeps ==
    [][ last'.op = "reset" =>
            Tokens(cacheStates, playerCoins, mementos)
                \subseteq Tokens(cacheStates', NewSet, mementos')
      ]_vars

\* the coins the program holds for the cell k: its live cache, or else its
\* memento
stored(cs, m, k) ==
    IF k \in DOMAIN cs THEN cs[k]
    ELSE IF k \in DOMAIN m THEN m[k] ELSE NewSet

\* C32 (as claimed): a deposit addressed to a cell that has a memento and no
\* live cache does not destroy what the memento holds: after the deposit and
\* the refresh of the next move, the coins stored for the cell are those of
\* the memento together with the deposited coin.
C32_DepositKeepsEvicted ==
    [][ ( /\ last'.op = "move"
          /\ last.op = "deposit" /\ last.created
          /\ last.cell \in DOMAIN mementos )
        => stored(cacheStates', mementos', last.cell)
               = Plus(mementos[last.cell], cacheStates[last.cell])
      ]_vars

\* C33 (as claimed): the record in localStorage is current after every
\* change of state: after each move, collect or deposit that changes the
\* state, the item stored is the one saveGameState writes for the
\* inventory, the trail and the live caches of the program.
C33_RecordCurrent ==
    [][ (last'.op \in {"move", "collect", "deposit"} /\ last'.changed)
        => storage' = saveGameState(playerCoins', pathCoordinates', cacheStates')
      ]_vars

====
